---- MODULE Spec2Model ----
(***************************************************************************)
(* Farm data processing pipeline: the data source adapter                  *)
(* (data_ingestion.py), FieldDataProcessor (field_data_processor.py),      *)
(* WeatherDataProcessor (weather_data_processor.py) and the hypothesis     *)
(* test driver (main.py), with the configuration of config.py.             *)
(*                                                                         *)
(* Python values: None is the empty tuple and any other optional value x   *)
(* is <<x>>.  A DataFrame is [cols |-> labels, rows |-> rows], every row a *)
(* tuple aligned with cols.  A cell is <<"str", s>>, <<"num", n>> or the   *)
(* null cell <<"nan">>.                                                    *)
(***************************************************************************)
EXTENDS Integers, Sequences, FiniteSets, TLC

VARIABLES
    df,                 \* FieldDataProcessor.df
    engine,             \* FieldDataProcessor.engine
    columns_to_rename,  \* config: insertion-ordered dict, a sequence of <<key, value>>
    values_to_rename,   \* config: dict synonym -> canonical
    weather_df,         \* WeatherDataProcessor.weather_df
    patterns,           \* config: insertion-ordered dict kind -> pattern, a sequence of <<key, pattern>>
    db,                 \* the relational source: [connect, query], what a call on it yields
    web,                \* the remote CSV resources: [mapping, stations], what a fetch yields
    call,               \* the last call made on the program, <<name, inputs...>>
    raised,             \* the exception the last call propagated, or None
    ret,                \* the value the last call returned, or None
    errlog,             \* the ERROR lines the last call logged
    steps,              \* the methods the last call entered, in order
    inputs,             \* main.py: the two tables read, the kinds to compare, what each t-test yields
    pc,                 \* main.py: where the run of main() or hypothesis_results() stands
    loop,               \* main.py: index of the next measurement in hypothesis_results' for loop
    stdout              \* main.py: the lines printed

vars == <<df, engine, columns_to_rename, values_to_rename, weather_df, patterns, db, web, call, raised, ret, errlog, steps,
          inputs, pc, loop, stdout>>

None == <<>>
Some(x) == <<x>>

S(x) == <<"str", x>>
N(n) == <<"num", n>>
NaN == <<"nan">>

Range(s) == {s[i] : i \in DOMAIN s}

IndexOf(s, x) == CHOOSE i \in DOMAIN s : s[i] = x

(* ------------------------------ bounds ------------------------------ *)
\* rows of a table obtained from the survey database or a CSV resource
MaxRows == 2

(* --------------------------- configuration -------------------------- *)
\* config.py: columns_to_rename and values_to_rename as shipped
ConfigColumnsToRename == << <<"Annual_yield", "Crop_type">>, <<"Crop_type", "Annual_yield">> >>

ConfigValuesToRename ==
    [k \in {"cassaval", "wheatn", "teaa"} |->
        CASE k = "cassaval" -> "cassava" [] k = "wheatn" -> "wheat" [] k = "teaa" -> "tea"]

\* other configurations a caller may pass to FieldDataProcessor.__init__
ColumnPairs ==
    { ConfigColumnsToRename,
      << <<"Crop_type", "Annual_yield">> >>,
      << <<"Elevation", "__temp_name_for_swap__">> >>,
      << <<"__temp_name_for_swap__", "Crop_type">> >> }

ValueMappings ==
    { ConfigValuesToRename,
      [k \in {} |-> "wheat"],
      [k \in {"wheatn", "wheat"} |-> IF k = "wheatn" THEN "wheat" ELSE "tea"],
      [k \in {"wheat", "tea"} |-> IF k = "wheat" THEN "tea" ELSE "wheat"],
      [k \in {"wheat"} |-> "wheat"] }

(* ------------------------------ tables ------------------------------ *)
CropValues == {"wheatn", "wheat", "tea"}
Elevations == {-1, 1}

\* One survey record as the database returns it: the crop-type and annual-yield
\* columns are swapped at the source, so the crop name sits under Annual_yield.
SurveyCols == <<"Field_ID", "Elevation", "Annual_yield", "Crop_type">>

SurveyRow(id, elev, crop) == <<N(id), N(elev), S(crop), N(10 * id)>>

RECURSIVE SurveyRowsOf(_)
SurveyRowsOf(n) ==
    IF n = 0 THEN {<<>>}
    ELSE {Append(rs, SurveyRow(n, e, c)) : rs \in SurveyRowsOf(n - 1), e \in Elevations, c \in CropValues}

SurveyTables == {[cols |-> SurveyCols, rows |-> rs] : rs \in UNION {SurveyRowsOf(n) : n \in 0..MaxRows}}

\* extra columns some tables carry, among them ones named like the swap placeholder
ExtraCols ==
    { <<>>,
      <<"__temp_name_for_swap__">>,
      <<"__temp_name_for_swap__", "__temp_name_for_swap___">> }

Widen(t, extra) ==
    [cols |-> t.cols \o extra,
     rows |-> [i \in DOMAIN t.rows |-> t.rows[i] \o [j \in DOMAIN extra |-> S(extra[j])]]]

FieldTables == {Widen(t, x) : t \in SurveyTables, x \in ExtraCols}

\* the station mapping CSV: Field_ID -> Weather_station
MapCols == <<"Field_ID", "Weather_station">>

RECURSIVE MapRowsOf(_)
MapRowsOf(n) ==
    IF n = 0 THEN {<<>>}
    ELSE {Append(rs, <<N(id), N(0)>>) : rs \in MapRowsOf(n - 1), id \in 1..(MaxRows + 1)}

MapTables ==
    {[cols |-> MapCols, rows |-> rs] : rs \in UNION {MapRowsOf(n) : n \in 0..MaxRows}}

(* ------------------------- pandas operations ------------------------ *)
\* DataFrame.rename(columns=mapper): every label that is a key of the mapper is
\* replaced, all at once; the data stays where it is
Rename(t, mapper) ==
    [t EXCEPT !.cols = [i \in DOMAIN t.cols |->
        IF t.cols[i] \in DOMAIN mapper THEN mapper[t.cols[i]] ELSE t.cols[i]]]

\* the dict literal {k1: v1, k2: v2}: the later entry wins on equal keys
Dict2(k1, v1, k2, v2) == (k2 :> v2) @@ (k1 :> v1)

Column(t, label) == [i \in DOMAIN t.rows |-> t.rows[i][IndexOf(t.cols, label)]]

SetColumn(t, label, data) ==
    [t EXCEPT !.rows = [i \in DOMAIN t.rows |->
        [t.rows[i] EXCEPT ![IndexOf(t.cols, label)] = data[i]]]]

Abs(n) == IF n < 0 THEN -n ELSE n

RECURSIVE SortedSeq(_)
SortedSeq(set) ==
    IF set = {} THEN <<>>
    ELSE LET m == CHOOSE x \in set : \A y \in set : x <= y
         IN  <<m>> \o SortedSeq(set \ {m})

RECURSIVE Concat(_)
Concat(ss) == IF ss = <<>> THEN <<>> ELSE Head(ss) \o Concat(Tail(ss))

Without(s, k) == [i \in 1..(Len(s) - 1) |-> IF i < k THEN s[i] ELSE s[i + 1]]

\* left.merge(right, on=key, how='outer'): keys in sorted order; matching rows
\* are paired, unmatched rows of either side are kept with nulls on the other
OuterMerge(left, right, key) ==
    LET kl == IndexOf(left.cols, key)
        kr == IndexOf(right.cols, key)
        keys == SortedSeq({left.rows[i][kl][2] : i \in DOMAIN left.rows}
                           \cup {right.rows[i][kr][2] : i \in DOMAIN right.rows})
        RowsFor(k) ==
            LET ls == SelectSeq(left.rows, LAMBDA r : r[kl] = N(k))
                rs == SelectSeq(right.rows, LAMBDA r : r[kr] = N(k))
                nullLeft == [j \in DOMAIN left.cols |-> IF j = kl THEN N(k) ELSE NaN]
                nullRight == [j \in 1..(Len(right.cols) - 1) |-> NaN]
            IN  IF rs = <<>> THEN [i \in DOMAIN ls |-> ls[i] \o nullRight]
                ELSE IF ls = <<>> THEN [i \in DOMAIN rs |-> nullLeft \o Without(rs[i], kr)]
                ELSE Concat([i \in DOMAIN ls |-> [j \in DOMAIN rs |-> ls[i] \o Without(rs[j], kr)]])
    IN  [cols |-> left.cols \o Without(right.cols, kr),
         rows |-> Concat([i \in DOMAIN keys |-> RowsFor(keys[i])])]

(* ------------------------ data_ingestion.py ------------------------- *)
\* What the environment answers.  A connection attempt: "ok" or the exception
\* class raised; a query or a fetch: <<"raise", class>> or <<"table", t>>.
ConnectOutcomes == {"ok", "ImportError", "OperationalError"}

QueryOutcomes ==
    {<<"raise", "ValueError">>, <<"raise", "OperationalError">>}
        \cup {<<"table", t>> : t \in SurveyTables}

DbStates ==
    {[connect |-> c, query |-> <<"raise", "OperationalError">>] : c \in ConnectOutcomes \ {"ok"}}
        \cup {[connect |-> "ok", query |-> q] : q \in QueryOutcomes}

FetchFailures == {<<"raise", "EmptyDataError">>, <<"raise", "URLError">>}

MappingOutcomes == FetchFailures \cup {<<"table", t>> : t \in MapTables}

\* the result of a call: the value returned, the exception propagated, the
\* ERROR lines logged on the way
Returned(v) == [ret |-> Some(v), raised |-> None, errlog |-> <<>>]
Failed(e, lines) == [ret |-> None, raised |-> Some(e), errlog |-> lines]

Engine == "Engine"

create_db_engine ==
    IF db.connect = "ok" THEN Returned(Engine)
    ELSE IF db.connect = "ImportError"
    THEN Failed("ImportError", <<"SQLAlchemy is required to use this function.">>)
    ELSE Failed(db.connect, <<"Failed to create database engine.">>)

\* mutant: only a result without columns counts as empty
EmptyWithoutColumns(t) == Len(t.cols) = 0

\* DataFrame.empty
Empty(t) == Len(t.rows) = 0 \/ Len(t.cols) = 0

query_data(eng) ==
    IF eng = None
    THEN Failed("AttributeError", <<"An error occurred while querying the database.">>)
    ELSE IF db.connect # "ok"
    THEN Failed(db.connect, <<"An error occurred while querying the database.">>)
    ELSE IF db.query[1] = "raise"
    THEN IF db.query[2] = "ValueError"
         THEN Failed("ValueError", <<"SQL query failed.">>)
         ELSE Failed(db.query[2], <<"An error occurred while querying the database.">>)
    ELSE IF Empty(db.query[2])
    THEN Failed("ValueError", <<"The query returned an empty DataFrame.", "SQL query failed.">>)
    ELSE Returned(db.query[2])

read_from_web_CSV(resource) ==
    IF resource[1] = "raise"
    THEN IF resource[2] = "EmptyDataError"
         THEN Failed("EmptyDataError", <<"The URL does not point to a valid CSV file.">>)
         ELSE Failed(resource[2], <<"Failed to read CSV from the web.">>)
    ELSE Returned(resource[2])

(* --------------------- field_data_processor.py ---------------------- *)
\* The processor while one call on it runs: its fields, the exception being
\* propagated, the methods entered and the ERROR lines logged so far.
Frame == [df |-> df, engine |-> engine, raised |-> None, steps |-> <<>>, errlog |-> <<>>]

Enter(s, method) == [s EXCEPT !.steps = Append(@, method)]
Raise(s, e) == [s EXCEPT !.raised = Some(e)]
Propagate(s, r) == [s EXCEPT !.raised = r.raised, !.errlog = @ \o r.errlog]

\* the attributes __init__ sets on the instance, and its methods
InstanceAttributes ==
    {"db_path", "sql_query", "columns_to_rename", "values_to_rename", "weather_csv_path",
     "weather_mapping_csv", "logger", "df", "engine",
     "initialize_logging", "ingest_sql_data", "rename_columns", "apply_corrections",
     "weather_station_mapping", "process"}

\* the attributes of config_params, a dict
DictAttributes ==
    {"clear", "copy", "fromkeys", "get", "items", "keys", "pop", "popitem", "setdefault",
     "update", "values"}

ingest_sql_data(s) ==
    LET s0 == Enter(s, "ingest_sql_data")
        c == create_db_engine
    IN  IF c.raised # None THEN Propagate(s0, c)
        ELSE LET s1 == [s0 EXCEPT !.engine = c.ret]
             IN  IF "query_data" \notin DictAttributes THEN Raise(s1, "AttributeError")
                 ELSE LET q == query_data(s1.engine)
                      IN  IF q.raised # None THEN Propagate(s1, q)
                          ELSE [s1 EXCEPT !.df = q.ret]

\* mutant: the placeholder is used as it is, taken or not
TempNameUnchecked(name, cols) == name

\* while temp_name in self.df.columns: temp_name += "_"
RECURSIVE TempName(_, _)
TempName(name, cols) ==
    IF name \in Range(cols) THEN TempName(name \o "_", cols) ELSE name

rename_columns(s) ==
    LET s0 == Enter(s, "rename_columns")
    IN  IF s.df = None THEN Raise(s0, "AttributeError")
        ELSE LET t == s.df[1]
                 column1 == columns_to_rename[1][1]
                 column2 == columns_to_rename[1][2]
                 temp_name == TempName("__temp_name_for_swap__", t.cols)
                 t1 == Rename(t, Dict2(column1, temp_name, column2, column1))
                 t2 == Rename(t1, temp_name :> column2)
             IN  [s0 EXCEPT !.df = Some(t2)]

\* mutant: Series.map(dict) in place of dict.get(crop, crop): a value that is no
\* key becomes null
CorrectByMap(cell) ==
    IF cell[1] = "str" /\ cell[2] \in DOMAIN values_to_rename
    THEN S(values_to_rename[cell[2]])
    ELSE NaN

\* lambda crop: self.values_to_rename.get(crop, crop)
Correct(cell) ==
    IF cell[1] = "str" /\ cell[2] \in DOMAIN values_to_rename
    THEN S(values_to_rename[cell[2]])
    ELSE cell

AbsCell(cell) == IF cell[1] = "num" THEN N(Abs(cell[2])) ELSE cell

apply_corrections(s, column_name, abs_column) ==
    LET s0 == Enter(s, "apply_corrections")
    IN  IF s.df = None THEN Raise(s0, "TypeError")
        ELSE LET t == s.df[1]
             IN  IF abs_column \notin Range(t.cols) THEN Raise(s0, "KeyError")
                 ELSE IF \E i \in DOMAIN t.rows : Column(t, abs_column)[i][1] = "str"
                 THEN Raise(s0, "TypeError")
                 ELSE LET a == Column(t, abs_column)
                          t1 == SetColumn(t, abs_column, [i \in DOMAIN a |-> AbsCell(a[i])])
                          s1 == [s0 EXCEPT !.df = Some(t1)]
                      IN  IF column_name \notin Range(t1.cols) THEN Raise(s1, "KeyError")
                          ELSE LET c == Column(t1, column_name)
                                   t2 == SetColumn(t1, column_name, [i \in DOMAIN c |-> Correct(c[i])])
                               IN  [s1 EXCEPT !.df = Some(t2)]

weather_station_mapping(s) ==
    LET s0 == Enter(s, "weather_station_mapping")
    IN  IF s.df = None THEN Raise(s0, "AttributeError")
        ELSE IF "weather_map_data" \notin InstanceAttributes THEN Raise(s0, "AttributeError")
        ELSE LET r == read_from_web_CSV(web.mapping)
             IN  IF r.raised # None THEN Propagate(s0, r)
                 ELSE IF "Field_ID" \notin Range(s.df[1].cols) \/ "Field_ID" \notin Range(r.ret[1].cols)
                 THEN Raise(s0, "KeyError")
                 ELSE [s0 EXCEPT !.df = Some(OuterMerge(s.df[1], r.ret[1], "Field_ID"))]

process(s) ==
    LET s1 == ingest_sql_data(s)
        s2 == rename_columns(s1)
        s3 == apply_corrections(s2, "Crop_type", "Elevation")
        s4 == weather_station_mapping(s3)
    IN  IF s1.raised # None THEN s1
        ELSE IF s2.raised # None THEN s2
        ELSE IF s3.raised # None THEN s3
        ELSE s4

(* -------------------- weather_data_processor.py --------------------- *)
\* A message is a sequence of tokens: a word, or a number written without or
\* with a decimal part.  A float is held in tenths.
W(w) == <<"word", w>>
D(i) == <<"digits", i>>
DF(i, f) == <<"digits", i, f>>

Tokens == {D(1), DF(2, 5), W("mm"), W("C"), W("hot")}

\* tokens of a message passed to extract_measurement
MaxMsgLen == 2

RECURSIVE TokenSeqs(_)
TokenSeqs(n) ==
    IF n = 0 THEN {<<>>} ELSE {Append(m, t) : m \in TokenSeqs(n - 1), t \in Tokens}

Messages == {S(m) : m \in UNION {TokenSeqs(n) : n \in 0..MaxMsgLen}} \cup {NaN}

\* A pattern is an alternation a1|a2|...; an alternative is a unit word with
\*   "digits": (\d+(\.\d+)?)\s?unit   two groups, the number and its decimal part
\*   "any":    (\S+)\s?unit           one group, whatever token precedes the unit
\*   "none":   unit                   no group
Alt(capture, unit) == [capture |-> capture, unit |-> unit]

GroupCount(alt) ==
    CASE alt.capture = "digits" -> 2 [] alt.capture = "any" -> 1 [] alt.capture = "none" -> 0

MatchesAt(alt, msg, i) ==
    CASE alt.capture = "none" -> msg[i] = W(alt.unit)
      [] alt.capture = "any" -> i + 1 <= Len(msg) /\ msg[i + 1] = W(alt.unit)
      [] alt.capture = "digits" ->
            i + 1 <= Len(msg) /\ msg[i][1] = "digits" /\ msg[i + 1] = W(alt.unit)

GroupsAt(alt, msg, i) ==
    CASE alt.capture = "none" -> <<>>
      [] alt.capture = "any" -> <<Some(msg[i])>>
      [] alt.capture = "digits" ->
            <<Some(msg[i]), IF Len(msg[i]) = 3 THEN Some(<<"frac", msg[i][3]>>) ELSE None>>

Nones(n) == [j \in 1..n |-> None]

Min(set) == CHOOSE x \in set : \A y \in set : x <= y

\* re.search(pattern, message): the leftmost match, at it the first alternative
\* that matches; match.groups() has None for the groups that took no part
Search(pattern, msg) ==
    LET hits == {i \in DOMAIN msg : \E a \in DOMAIN pattern : MatchesAt(pattern[a], msg, i)}
    IN  IF hits = {} THEN None
        ELSE LET i == Min(hits)
                 a == Min({b \in DOMAIN pattern : MatchesAt(pattern[b], msg, i)})
             IN  Some(Concat([k \in DOMAIN pattern |->
                    IF k = a THEN GroupsAt(pattern[k], msg, i) ELSE Nones(GroupCount(pattern[k]))]))

IsNumeric(text) == text[1] \in {"digits", "frac"}

\* float(text), in tenths
Float(text) ==
    IF text[1] = "frac" THEN text[2]
    ELSE IF Len(text) = 3 THEN 10 * text[2] + text[3]
    ELSE 10 * text[2]

\* mutant: the last group that took part, not the first
LastNonNull(groups) ==
    LET taken == SelectSeq(groups, LAMBDA g : g # None)
    IN  IF taken = <<>> THEN <<>> ELSE <<taken[Len(taken)]>>

\* next((x for x in match.groups() if x is not None)): the one found, or nothing
FirstNonNull(groups) ==
    LET taken == SelectSeq(groups, LAMBDA g : g # None)
    IN  IF taken = <<>> THEN <<>> ELSE <<taken[1]>>

\* the loop of extract_measurement from rule k on
RECURSIVE ExtractFrom(_, _)
ExtractFrom(k, message) ==
    IF k > Len(patterns) THEN Returned(<<None, None>>)
    ELSE IF message[1] # "str" THEN Failed("TypeError", <<>>)
    ELSE LET match == Search(patterns[k][2], message[2])
         IN  IF match = None THEN ExtractFrom(k + 1, message)
             ELSE LET found == FirstNonNull(match[1])
                  IN  IF found = <<>> THEN Failed("StopIteration", <<>>)
                      ELSE IF ~IsNumeric(found[1][1]) THEN Failed("ValueError", <<>>)
                      ELSE Returned(<<Some(patterns[k][1]), Some(Float(found[1][1]))>>)

extract_measurement(message) == ExtractFrom(1, message)

WeatherFrame == [weather_df |-> weather_df, raised |-> None, ret |-> None, steps |-> <<>>, errlog |-> <<>>]

W_weather_station_mapping(s) ==
    LET s0 == Enter(s, "weather_station_mapping")
        r == read_from_web_CSV(web.stations)
    IN  IF r.raised # None THEN Propagate(s0, r)
        ELSE [s0 EXCEPT !.weather_df = r.ret]

NoneCell == <<"none">>

\* df[label] = data: the column is replaced, or added at the end
AssignColumn(t, label, data) ==
    IF label \in Range(t.cols) THEN SetColumn(t, label, data)
    ELSE [cols |-> Append(t.cols, label),
          rows |-> [i \in DOMAIN t.rows |-> Append(t.rows[i], data[i])]]

process_messages(s) ==
    LET s0 == Enter(s, "process_messages")
    IN  IF s.weather_df = None THEN s0
        ELSE LET t == s.weather_df[1]
             IN  IF "Message" \notin Range(t.cols) THEN Raise(s0, "KeyError")
                 ELSE LET result == [i \in DOMAIN t.rows |-> extract_measurement(Column(t, "Message")[i])]
                          failing == {i \in DOMAIN result : result[i].raised # None}
                      IN  IF failing # {} THEN Raise(s0, result[Min(failing)].raised[1])
                          ELSE IF Len(t.rows) = 0 THEN Raise(s0, "ValueError")
                          ELSE LET allNone == \A i \in DOMAIN result : result[i].ret[1][2] = None
                                   measurement == [i \in DOMAIN result |->
                                       IF result[i].ret[1][1] = None THEN NoneCell
                                       ELSE S(result[i].ret[1][1][1])]
                                   value == [i \in DOMAIN result |->
                                       IF result[i].ret[1][2] # None THEN N(result[i].ret[1][2][1])
                                       ELSE IF allNone THEN NoneCell ELSE NaN]
                                   t1 == AssignColumn(t, "Measurement", measurement)
                                   t2 == AssignColumn(t1, "Value", value)
                               IN  [s0 EXCEPT !.weather_df = Some(t2), !.ret = Some(t2)]

RECURSIVE Sum(_)
Sum(seq) == IF seq = <<>> THEN 0 ELSE Head(seq) + Sum(Tail(seq))

RECURSIVE GCD(_, _)
GCD(a, b) == IF b = 0 THEN a ELSE GCD(b, a % b)

\* the arithmetic mean, a fraction in lowest terms
Mean(values) ==
    LET g == GCD(Sum(values), Len(values))
    IN  <<"mean", Sum(values) \div g, Len(values) \div g>>

\* mutant: a row whose message matched no pattern counts as a zero in every
\* group of its station
GroupValuesNullAsZero(t, key) ==
    LET rows == SelectSeq(t.rows, LAMBDA r :
                    /\ r[IndexOf(t.cols, "Weather_station_ID")] = N(key[1])
                    /\ r[IndexOf(t.cols, "Measurement")] \in {S(key[2]), NoneCell})
    IN  [i \in DOMAIN rows |->
            IF rows[i][IndexOf(t.cols, "Value")][1] = "num"
            THEN rows[i][IndexOf(t.cols, "Value")][2] ELSE 0]

\* the values of one group of groupby(['Weather_station_ID', 'Measurement'])['Value']
GroupValues(t, key) ==
    LET rows == SelectSeq(t.rows, LAMBDA r :
                    /\ r[IndexOf(t.cols, "Weather_station_ID")] = N(key[1])
                    /\ r[IndexOf(t.cols, "Measurement")] = S(key[2])
                    /\ r[IndexOf(t.cols, "Value")][1] = "num")
    IN  [i \in DOMAIN rows |-> rows[i][IndexOf(t.cols, "Value")][2]]

\* the group keys: rows with a null key are dropped
GroupKeys(t) ==
    {<<Column(t, "Weather_station_ID")[i][2], Column(t, "Measurement")[i][2]>> :
        i \in {j \in DOMAIN t.rows : Column(t, "Measurement")[j][1] = "str"}}

\* means.unstack(): stations down, kinds across, null where a pair has no group
Unstack(t) ==
    LET keys == GroupKeys(t)
        index == {k[1] : k \in keys}
        columns == {k[2] : k \in keys}
    IN  [index |-> index, columns |-> columns,
         cells |-> [k \in index \X columns |->
                      IF k \in keys THEN Mean(GroupValues(t, k)) ELSE NaN]]

\* What calculate_means may do.  A Value column of nothing but None has dtype
\* object: its mean is an empty result or an error, by the pandas version.
calculate_means(s) ==
    LET s0 == Enter(s, "calculate_means")
    IN  IF s.weather_df = None THEN {s0}
        ELSE LET t == s.weather_df[1]
             IN  IF ~({"Weather_station_ID", "Measurement", "Value"} \subseteq Range(t.cols))
                 THEN {Raise(s0, "KeyError")}
                 ELSE IF \A i \in DOMAIN t.rows : Column(t, "Value")[i] = NoneCell
                 THEN {Raise(s0, "DataError"), [s0 EXCEPT !.ret = Some(Unstack(t))]}
                 ELSE {[s0 EXCEPT !.ret = Some(Unstack(t))]}

W_process(s) ==
    LET s1 == W_weather_station_mapping(s)
    IN  IF s1.raised # None THEN s1 ELSE process_messages(s1)

(* ------------------------------ main.py ----------------------------- *)
\* the names bound at module level, and the local names of the two functions
ModuleGlobals ==
    {"pd", "ttest_ind", "np", "filter_field_data", "filter_weather_data", "run_ttest",
     "print_ttest_results", "hypothesis_results", "main"}

HypothesisLocals == {"field_df", "weather_df", "measurements_to_compare", "alpha",
                     "measurement", "field_values", "weather_values", "t_stat", "p_val"}

MainLocals == {"field_df", "weather_df", "station_id", "alpha", "measurements_to_compare",
               "measurement", "field_values", "weather_values", "t_stat", "p_val"}

MainMeasurements == <<"Temperature", "Rainfall", "Pollution_level">>

\* the result of a step: its value or the exception it raises
Value(v) == [raised |-> None, value |-> Some(v)]
Error(e) == [raised |-> Some(e), value |-> None]

\* df[(df['Weather_station'] == station_id)][measurement]
filter_field_data(cols, measurement) ==
    IF "Weather_station" \notin cols \/ measurement \notin cols THEN Error("KeyError")
    ELSE Value(<<"field", measurement>>)

\* df[(df['Weather_station_ID'] == station_id) & (df['Measurement'] == measurement)]['Value']
filter_weather_data(cols, measurement) ==
    IF ~({"Weather_station_ID", "Measurement", "Value"} \subseteq cols) THEN Error("KeyError")
    ELSE Value(<<"weather", measurement>>)

\* ttest_ind(data1, data2): what the library yields on the two samples of a
\* kind, "raise" or the p-value: below alpha, not below, or nan
run_ttest(data1, data2) ==
    LET outcome == inputs.ttest[IndexOf(MainMeasurements, data1[2])]
    IN  IF outcome = "raise" THEN Error("TypeError") ELSE Value(outcome)

print_ttest_results(measurement, p_val) ==
    << <<"T-test results", measurement>>,
       <<"p-value", p_val>>,
       IF p_val = "lt" THEN <<"Null hypothesis rejected">> ELSE <<"Null hypothesis not rejected">> >>

\* filter, test and report for one measurement, in a scope of visible names:
\* the exception raised, if any, and the lines printed
Compare(scope, measurement) ==
    IF "station_id" \notin scope THEN [raised |-> Some("NameError"), out |-> <<>>]
    ELSE LET field_values == filter_field_data(inputs.field_cols, measurement)
             weather_values == filter_weather_data(inputs.weather_cols, measurement)
             test == run_ttest(field_values.value[1], weather_values.value[1])
         IN  IF field_values.raised # None THEN [raised |-> field_values.raised, out |-> <<>>]
             ELSE IF weather_values.raised # None THEN [raised |-> weather_values.raised, out |-> <<>>]
             ELSE IF test.raised # None THEN [raised |-> test.raised, out |-> <<>>]
             ELSE [raised |-> None, out |-> print_ttest_results(measurement, test.value[1])]

(* ----------------------------- actions ------------------------------ *)
Config == <<columns_to_rename, values_to_rename, patterns>>
Driver == <<inputs, pc, loop, stdout>>
Environment == <<db, web>>

\* a call on the FieldDataProcessor ends: its fields and what the caller sees
FieldCall(name, s) ==
    /\ call' = <<name>>
    /\ df' = s.df
    /\ engine' = s.engine
    /\ raised' = s.raised
    /\ ret' = IF s.raised = None /\ name = "ingest_sql_data" THEN s.df ELSE None
    /\ errlog' = s.errlog
    /\ steps' = s.steps
    /\ UNCHANGED <<weather_df, Config, Environment, Driver>>

CallIngestSqlData == FieldCall("ingest_sql_data", ingest_sql_data(Frame))
CallRenameColumns == FieldCall("rename_columns", rename_columns(Frame))
CallApplyCorrections == FieldCall("apply_corrections", apply_corrections(Frame, "Crop_type", "Elevation"))
CallWeatherStationMapping == FieldCall("weather_station_mapping", weather_station_mapping(Frame))
CallProcess == FieldCall("process", process(Frame))

\* a call on the data source adapter
AdapterCall(c, r) ==
    /\ call' = c
    /\ raised' = r.raised
    /\ ret' = r.ret
    /\ errlog' = r.errlog
    /\ steps' = <<c[1]>>
    /\ UNCHANGED <<df, engine, weather_df, Config, Environment, Driver>>

CallCreateDbEngine == AdapterCall(<<"create_db_engine">>, create_db_engine)
CallQueryData == \E eng \in {None, Some(Engine)} : AdapterCall(<<"query_data", eng>>, query_data(eng))
CallReadFromWebCSV == AdapterCall(<<"read_from_web_CSV">>, read_from_web_CSV(web.mapping))

NoWeather ==
    /\ weather_df = None
    /\ patterns = <<>>

NoField ==
    /\ df = None
    /\ engine = None
    /\ columns_to_rename = ConfigColumnsToRename
    /\ values_to_rename = ConfigValuesToRename

NoDriver ==
    /\ inputs = [field_cols |-> {}, weather_cols |-> {}, measurements |-> <<>>,
                 ttest |-> <<>>, files |-> "missing"]
    /\ pc = "idle"
    /\ loop = 0
    /\ stdout = <<>>

NoCall ==
    /\ call = <<"__init__">>
    /\ raised = None
    /\ ret = None
    /\ errlog = <<>>
    /\ steps = <<>>
    /\ NoDriver

NoEnvironment ==
    /\ db = [connect |-> "ok", query |-> <<"raise", "OperationalError">>]
    /\ web = [mapping |-> <<"raise", "URLError">>, stations |-> <<"raise", "URLError">>]

(* The relabel and correction steps on any table a caller holds. *)
InitSwap ==
    /\ df \in {Some(t) : t \in FieldTables}
    /\ engine = None
    /\ columns_to_rename \in ColumnPairs
    /\ values_to_rename \in ValueMappings
    /\ NoWeather
    /\ NoEnvironment
    /\ NoCall

NextSwap == CallRenameColumns \/ CallApplyCorrections

SpecSwap == InitSwap /\ [][NextSwap]_vars

(* The data source adapter against any state of the two sources. *)
InitAdapter ==
    /\ NoField
    /\ NoWeather
    /\ db \in DbStates
    /\ web \in [mapping : MappingOutcomes, stations : {<<"raise", "URLError">>}]
    /\ NoCall

NextAdapter == CallCreateDbEngine \/ CallQueryData \/ CallReadFromWebCSV

SpecAdapter == InitAdapter /\ [][NextAdapter]_vars

(* The FieldDataProcessor as config.py configures it, as constructed or with *)
(* the survey table already in df, against any state of the two sources.     *)
InitField ==
    /\ db \in DbStates
    /\ web \in [mapping : MappingOutcomes, stations : {<<"raise", "URLError">>}]
    /\ df \in {None} \cup {Some(t) : t \in {u \in SurveyTables : db.query = <<"table", u>> /\ ~Empty(u)}}
    /\ engine = None
    /\ columns_to_rename = ConfigColumnsToRename
    /\ values_to_rename = ConfigValuesToRename
    /\ NoWeather
    /\ NoCall

NextField ==
    \/ CallIngestSqlData
    \/ CallRenameColumns
    \/ CallApplyCorrections
    \/ CallWeatherStationMapping
    \/ CallProcess

SpecField == InitField /\ [][NextField]_vars

\* a call on the WeatherDataProcessor ends
WeatherCall(c, s) ==
    /\ call' = c
    /\ weather_df' = s.weather_df
    /\ raised' = s.raised
    /\ ret' = s.ret
    /\ errlog' = s.errlog
    /\ steps' = s.steps
    /\ UNCHANGED <<df, engine, Config, Environment, Driver>>

CallWeatherLoad == WeatherCall(<<"weather_station_mapping">>, W_weather_station_mapping(WeatherFrame))
CallProcessMessages == WeatherCall(<<"process_messages">>, process_messages(WeatherFrame))
CallCalculateMeans == \E s \in calculate_means(WeatherFrame) : WeatherCall(<<"calculate_means">>, s)
CallWeatherProcess == WeatherCall(<<"process">>, W_process(WeatherFrame))

CallExtractMeasurement ==
    \E message \in Messages :
        LET r == extract_measurement(message)
        IN  WeatherCall(<<"extract_measurement", message>>,
                        [WeatherFrame EXCEPT !.raised = r.raised, !.ret = r.ret,
                                             !.steps = <<"extract_measurement">>])

\* the pattern tables a caller may configure, in their configured order
PatternTables ==
    { <<>>,
      << <<"Rainfall", <<Alt("digits", "mm")>> >>, <<"Temperature", <<Alt("digits", "C")>> >> >>,
      << <<"Temperature", <<Alt("digits", "C")>> >>, <<"Rainfall", <<Alt("digits", "mm"), Alt("digits", "C")>> >> >>,
      << <<"Rainfall", <<Alt("digits", "C"), Alt("digits", "mm")>> >>, <<"Temperature", <<Alt("digits", "mm")>> >> >>,
      << <<"Rainfall", <<Alt("any", "mm")>> >>, <<"Temperature", <<Alt("digits", "C")>> >> >>,
      << <<"Temperature", <<Alt("none", "hot"), Alt("digits", "C")>> >>, <<"Rainfall", <<Alt("digits", "mm")>> >> >> }

\* the station message CSV: Weather_station_ID, Message
StationCols == <<"Weather_station_ID", "Message">>
Stations == {0, 1}

TableMessages ==
    { S(<<D(1), W("mm")>>), S(<<DF(2, 5), W("mm")>>), S(<<D(1), W("C")>>), S(<<W("hot")>>), NaN }

RECURSIVE StationRowsOf(_)
StationRowsOf(n) ==
    IF n = 0 THEN {<<>>}
    ELSE {Append(rs, <<N(st), m>>) : rs \in StationRowsOf(n - 1), st \in Stations, m \in TableMessages}

StationTables ==
    {[cols |-> StationCols, rows |-> rs] : rs \in UNION {StationRowsOf(n) : n \in 0..MaxRows}}

StationOutcomes == FetchFailures \cup {<<"table", t>> : t \in StationTables}

(* extract_measurement on any message under any pattern table. *)
InitExtract ==
    /\ NoField
    /\ weather_df = None
    /\ patterns \in PatternTables
    /\ NoEnvironment
    /\ NoCall

NextExtract == CallExtractMeasurement

SpecExtract == InitExtract /\ [][NextExtract]_vars

(* The WeatherDataProcessor as constructed, against any station message feed. *)
InitWeather ==
    /\ NoField
    /\ weather_df = None
    /\ patterns \in PatternTables
    /\ db = [connect |-> "ok", query |-> <<"raise", "OperationalError">>]
    /\ web \in [mapping : {<<"raise", "URLError">>}, stations : StationOutcomes]
    /\ NoCall

NextWeather ==
    \/ CallWeatherLoad
    \/ CallProcessMessages
    \/ CallCalculateMeans
    \/ CallWeatherProcess

SpecWeather == InitWeather /\ [][NextWeather]_vars

\* a step of main() or hypothesis_results()
DriverStep(to, exc, out, next) ==
    /\ pc' = IF exc # None THEN "raised" ELSE to
    /\ raised' = exc
    /\ stdout' = stdout \o out
    /\ loop' = IF exc # None THEN loop ELSE next
    /\ UNCHANGED <<df, engine, weather_df, Config, Environment, call, ret, errlog, steps, inputs>>

\* field_df = pd.read_csv(...); weather_df = pd.read_csv(...)
MainLoad ==
    /\ pc = "main"
    /\ DriverStep("example1", IF inputs.files = "ok" THEN None ELSE Some("FileNotFoundError"), <<>>, 0)

MainExample1 ==
    /\ pc = "example1"
    /\ LET r == Compare(MainLocals \cup ModuleGlobals, "Temperature")
       IN  DriverStep("example2", r.raised, <<<<"Example 1:">>>> \o r.out, 0)

MainExample2 ==
    /\ pc = "example2"
    /\ DriverStep("hypothesis_results", None, <<<<"Example 2:">>>>, 0)

HypothesisHeader ==
    /\ pc = "hypothesis_results"
    /\ DriverStep("for", None, <<<<"Hypothesis Testing Results:">>>>, 1)

HypothesisIteration ==
    /\ pc = "for"
    /\ loop <= Len(inputs.measurements)
    /\ LET r == Compare(HypothesisLocals \cup ModuleGlobals, inputs.measurements[loop])
       IN  DriverStep("for", r.raised, r.out, loop + 1)

HypothesisReturn ==
    /\ pc = "for"
    /\ loop > Len(inputs.measurements)
    /\ DriverStep("done", None, <<>>, loop)

FieldColumnSets == SUBSET {"Weather_station", "Temperature", "Rainfall", "Pollution_level"}

WeatherColumnSets == {{"Weather_station_ID", "Message"},
                      {"Weather_station_ID", "Message", "Measurement", "Value"}}

TtestOutcomes == {"raise", "lt", "ge", "nan"}

MeasurementLists ==
    { <<>>, <<"Temperature">>, <<"Temperature", "Rainfall">>,
      <<"Rainfall", "Temperature", "Pollution_level">>, MainMeasurements }

(* main() on the files it reads, or hypothesis_results() called on two tables. *)
InitDriver ==
    /\ NoField
    /\ NoWeather
    /\ NoEnvironment
    /\ call \in {<<"main">>, <<"hypothesis_results">>}
    /\ pc = call[1]
    /\ inputs \in [field_cols : FieldColumnSets, weather_cols : WeatherColumnSets,
                   measurements : MeasurementLists,
                   ttest : [DOMAIN MainMeasurements -> TtestOutcomes],
                   files : {"ok", "missing"}]
    /\ call = <<"main">> => inputs.measurements = MainMeasurements
    /\ call = <<"hypothesis_results">> => inputs.files = "ok"
    /\ raised = None
    /\ ret = None
    /\ errlog = <<>>
    /\ steps = <<>>
    /\ loop = 0
    /\ stdout = <<>>

NextDriver ==
    \/ MainLoad
    \/ MainExample1
    \/ MainExample2
    \/ HypothesisHeader
    \/ HypothesisIteration
    \/ HypothesisReturn

SpecDriver == InitDriver /\ [][NextDriver]_vars

(* ------------------------------ claims ------------------------------ *)
column1 == columns_to_rename[1][1]
column2 == columns_to_rename[1][2]

HoldsPair(t) == column1 # column2 /\ {column1, column2} \subseteq Range(t.cols)

\* the data under A is now under B and the reverse, every other label keeps its data
Exchanged(t, u) ==
    /\ Range(u.cols) = Range(t.cols)
    /\ Len(u.cols) = Len(t.cols)
    /\ Len(u.rows) = Len(t.rows)
    /\ Column(u, column2) = Column(t, column1)
    /\ Column(u, column1) = Column(t, column2)
    /\ \A l \in Range(t.cols) \ {column1, column2} : Column(u, l) = Column(t, l)

\* C1: rename_columns is a true swap. On every table holding the two configured
\* columns A and B, whatever its other columns (one named like the placeholder
\* included), one call puts the data of A under B and the data of B under A and
\* changes no other column, and a second call restores the labels and the data.
C1_RenameIsSwap ==
    (df # None /\ HoldsPair(df[1])) =>
        LET once == rename_columns(Frame)
            twice == rename_columns(once)
        IN  /\ once.raised = None
            /\ Exchanged(df[1], once.df[1])
            /\ twice.raised = None
            /\ twice.df = df

\* rename_columns has run on a table that holds A, B, rows and a column named
\* like the placeholder
C1_Witness ==
    /\ call = <<"rename_columns">>
    /\ raised = None
    /\ df # None
    /\ HoldsPair(df[1])
    /\ "__temp_name_for_swap__" \in Range(df[1].cols) \ {column1, column2}
    /\ Len(df[1].rows) = MaxRows

Correctable(t) ==
    /\ {"Crop_type", "Elevation"} \subseteq Range(t.cols)
    /\ \A i \in DOMAIN t.rows : Column(t, "Elevation")[i][1] = "num"

\* every value that is a key is replaced by what it maps to, every other value stays
Corrected(t, u) ==
    /\ Len(u.rows) = Len(t.rows)
    /\ \A i \in DOMAIN t.rows :
        LET old == Column(t, "Crop_type")[i]
            new == Column(u, "Crop_type")[i]
        IN  IF old[1] = "str" /\ old[2] \in DOMAIN values_to_rename
            THEN new = S(values_to_rename[old[2]])
            ELSE new = old

\* no canonical value is itself a synonym of another value
Canonical(m) == \A k \in DOMAIN m : m[k] \in DOMAIN m => m[m[k]] = m[k]

\* C2 as stated: the correction replaces exactly the keys of the mapping, and for
\* any configured mapping applying it twice equals applying it once.
C2_CorrectionIdempotentForAnyMapping ==
    (df # None /\ Correctable(df[1])) =>
        LET once == apply_corrections(Frame, "Crop_type", "Elevation")
            twice == apply_corrections(once, "Crop_type", "Elevation")
        IN  /\ once.raised = None
            /\ Corrected(df[1], once.df[1])
            /\ twice.df = once.df

\* C2 amended: the correction replaces exactly the keys of the mapping and leaves
\* every other value; applying it twice equals applying it once when no mapped
\* value is itself a key mapped to something else.
C2_CorrectionIdempotentForCanonicalMapping ==
    (df # None /\ Correctable(df[1])) =>
        LET once == apply_corrections(Frame, "Crop_type", "Elevation")
            twice == apply_corrections(once, "Crop_type", "Elevation")
        IN  /\ once.raised = None
            /\ Corrected(df[1], once.df[1])
            /\ twice.raised = None
            /\ Canonical(values_to_rename) => twice.df = once.df

\* apply_corrections has run, under the shipped mapping, on a crop-type column
\* of names: a corrected name stands beside one the mapping does not know
C2_Witness ==
    /\ call = <<"apply_corrections">>
    /\ raised = None
    /\ values_to_rename = ConfigValuesToRename
    /\ df # None
    /\ Correctable(df[1])
    /\ {S("wheat"), S("tea")} \subseteq Range(Column(df[1], "Crop_type"))

AdapterFunctions == {"create_db_engine", "query_data", "read_from_web_CSV"}

\* the executed query came back with a table of no rows
QueryYieldsNoRows ==
    /\ call = <<"query_data", Some(Engine)>>
    /\ db.connect = "ok"
    /\ db.query[1] = "table"
    /\ Len(db.query[2].rows) = 0

\* C5: query_data never returns an empty table. When the executed query yields
\* zero rows it raises to the caller, and a table it returns has at least one row.
C5_QueryNeverReturnsEmpty ==
    call[1] = "query_data" =>
        /\ QueryYieldsNoRows => (raised = Some("ValueError") /\ ret = None)
        /\ ret # None => (raised = None /\ Len(ret[1].rows) >= 1)

\* query_data has raised on a query of zero rows
C5_Witness == QueryYieldsNoRows /\ raised # None

\* C6: every failing call of the adapter logs exactly one ERROR line and then
\* propagates the error; a call fails or returns a value, never a fallback.
C6_OneErrorLinePerFailure ==
    call[1] \in AdapterFunctions =>
        /\ raised # None => (Len(errlog) = 1 /\ ret = None)
        /\ raised = None => (errlog = <<>> /\ ret # None)

ProcessSteps == <<"ingest_sql_data", "rename_columns", "apply_corrections", "weather_station_mapping">>

SourcesGood ==
    /\ db.connect = "ok"
    /\ db.query[1] = "table"
    /\ ~Empty(db.query[2])
    /\ web.mapping[1] = "table"

\* C7: process() runs Ingest, Column Relabel, Value Correction and Enrichment Join
\* once each in that order, and with a non-empty survey table and a fetched mapping
\* table it ends with the relabelled, corrected, station-enriched table in df.
C7_ProcessRunsAllSteps ==
    call = <<"process">> =>
        /\ \E n \in 1..Len(ProcessSteps) : steps = SubSeq(ProcessSteps, 1, n)
        /\ SourcesGood =>
            /\ raised = None
            /\ steps = ProcessSteps
            /\ df # None
            /\ "Weather_station" \in Range(df[1].cols)
            /\ Len(df[1].rows) >= Len(db.query[2].rows)

FieldIds(t) == {Column(t, "Field_ID")[i] : i \in DOMAIN t.rows}

\* C8: the enrichment join keeps the unmatched rows of both sides. After
\* weather_station_mapping on a survey table with a fetched mapping table, df
\* has the station column and a row for every Field_ID of the mapping table,
\* with null survey fields where the survey table has no such field.
C8_OuterJoinKeepsBothSides ==
    (call = <<"weather_station_mapping">> /\ df # None /\ web.mapping[1] = "table") =>
        /\ raised = None
        /\ "Weather_station" \in Range(df[1].cols)
        /\ FieldIds(web.mapping[2]) \subseteq FieldIds(df[1])

Kinds == {"Rainfall", "Temperature"}

\* the rules whose pattern matches the message
Matching(msg) == {k \in DOMAIN patterns : Search(patterns[k][2], msg) # None}

\* C3: extract_measurement tries the rules in their configured order. With no rule
\* matching it returns (None, None); otherwise the kind it returns is that of the
\* earliest matching rule, whatever later rules match, and the value is the first
\* non-null group of that rule's match as a float.
C3_FirstMatchingRuleWins ==
    (call[1] = "extract_measurement" /\ call[2][1] = "str") =>
        LET msg == call[2][2]
        IN  IF Matching(msg) = {}
            THEN raised = None /\ ret = Some(<<None, None>>)
            ELSE LET k == Min(Matching(msg))
                     groups == Search(patterns[k][2], msg)[1]
                     taken == {j \in DOMAIN groups : groups[j] # None}
                 IN  /\ ret # None => ret[1][1] = Some(patterns[k][1])
                     /\ (taken # {} /\ IsNumeric(groups[Min(taken)][1])) =>
                            /\ raised = None
                            /\ ret = Some(<<Some(patterns[k][1]), Some(Float(groups[Min(taken)][1]))>>)

\* a message two rules match, the earlier through its second alternative, so
\* that its first groups are null: "2.5 mm" read as Rainfall 2.5
C3_Witness ==
    /\ call[1] = "extract_measurement"
    /\ call[2][1] = "str"
    /\ Cardinality(Matching(call[2][2])) >= 2
    /\ Search(patterns[Min(Matching(call[2][2]))][2], call[2][2])[1][1] = None
    /\ ret = Some(<<Some("Rainfall"), Some(25)>>)

\* C4: message parsing never aborts the batch. On every loaded table, under every
\* pattern table, process_messages completes and every row has its Measurement
\* and Value, null where the message could not be parsed.
C4_ParsingNeverAborts ==
    (call = <<"process_messages">> /\ weather_df # None) =>
        /\ raised = None
        /\ {"Measurement", "Value"} \subseteq Range(weather_df[1].cols)

Parsed(t) == {"Weather_station_ID", "Measurement", "Value"} \subseteq Range(t.cols)

\* the rows parsed to one (station, kind) pair
PairRows(t, st, k) ==
    {i \in DOMAIN t.rows :
        Column(t, "Weather_station_ID")[i] = N(st) /\ Column(t, "Measurement")[i] = S(k)}

RECURSIVE SumOfValues(_, _)
SumOfValues(t, rows) ==
    IF rows = {} THEN 0
    ELSE LET i == CHOOSE j \in rows : TRUE
         IN  Column(t, "Value")[i][2] + SumOfValues(t, rows \ {i})

\* C9: calculate_means on a loaded and parsed table gives, per (station, kind)
\* pair with a parsed row, the arithmetic mean of exactly the values parsed for
\* that pair; a row that matched no pattern adds to no sum and no denominator,
\* and a pair without rows has no value in the pivoted result.
C9_MeansOfParsedRowsOnly ==
    (call = <<"calculate_means">> /\ weather_df # None /\ Parsed(weather_df[1])) =>
        LET t == weather_df[1]
        IN  /\ (\E i \in DOMAIN t.rows : Column(t, "Measurement")[i] # NoneCell) =>
                    (raised = None /\ ret # None)
            /\ (raised = None /\ ret # None) =>
                    \A st \in Stations \cup ret[1].index, k \in Kinds \cup ret[1].columns :
                        LET rows == PairRows(t, st, k)
                            has == /\ st \in ret[1].index
                                   /\ k \in ret[1].columns
                                   /\ ret[1].cells[<<st, k>>] # NaN
                        IN  IF rows = {} THEN ~has
                            ELSE /\ has
                                 /\ ret[1].cells[<<st, k>>][3] > 0
                                 /\ ret[1].cells[<<st, k>>][2] * Cardinality(rows)
                                        = ret[1].cells[<<st, k>>][3] * SumOfValues(t, rows)

\* the means of a table in which one station has a parsed row and a row that
\* matched no pattern
C9_Witness ==
    /\ call = <<"calculate_means">>
    /\ raised = None
    /\ ret # None
    /\ weather_df # None
    /\ Parsed(weather_df[1])
    /\ \E i, j \in DOMAIN weather_df[1].rows :
        /\ Column(weather_df[1], "Weather_station_ID")[i] = Column(weather_df[1], "Weather_station_ID")[j]
        /\ Column(weather_df[1], "Measurement")[i] = S("Rainfall")
        /\ Column(weather_df[1], "Measurement")[j] = NoneCell

\* a step of filter, test, report fails for the kind
StepFails(k) == Compare(MainLocals, k).raised # None

\* the kinds reported after the header of hypothesis_results, in the order printed
RECURSIVE ReportedAfter(_, _)
ReportedAfter(lines, seen) ==
    IF lines = <<>> THEN <<>>
    ELSE IF Head(lines) = <<"Hypothesis Testing Results:">> THEN ReportedAfter(Tail(lines), TRUE)
    ELSE IF seen /\ Head(lines)[1] = "T-test results"
    THEN <<Head(lines)[2]>> \o ReportedAfter(Tail(lines), seen)
    ELSE ReportedAfter(Tail(lines), seen)

\* the measurements before the first one a step fails for
RECURSIVE UntilFailure(_)
UntilFailure(ms) ==
    IF ms = <<>> \/ StepFails(Head(ms)) THEN <<>> ELSE <<Head(ms)>> \o UntilFailure(Tail(ms))

\* C10: hypothesis_results runs filter, test, report for the configured kinds in
\* list order. When it ends, the kinds reported are, in order, those before the
\* first kind a step fails for; it raises exactly when a step fails for some kind
\* and returns having reported every kind otherwise.
C10_ReportsInOrderUntilFailure ==
    (pc \in {"done", "raised"} /\ <<"Hypothesis Testing Results:">> \in Range(stdout)) =>
        /\ ReportedAfter(stdout, FALSE) = UntilFailure(inputs.measurements)
        /\ pc = "raised" <=> \E i \in DOMAIN inputs.measurements : StepFails(inputs.measurements[i])

\* C11: ingest_sql_data has no partial-ingest state. A call that fails (at the
\* connect step or at the query step) raises to the caller and leaves engine and
\* df as they were before the call, and engine is set only when df is set too.
C11_NoPartialIngest ==
    /\ [][(call' = <<"ingest_sql_data">> /\ raised' # None) =>
            (engine' = engine /\ df' = df)]_vars
    /\ [](engine # None => df # None)

====
